---- MODULE Spec2Model ----
(***************************************************************************)
(* Reflexive Python SDK: the AppState log/state store                      *)
(* (python-sdk/reflexive/app_state.py) and the ReflexiveInstance with its  *)
(* HTTP bridge to the monitor CLI (python-sdk/reflexive/core.py).          *)
(*                                                                         *)
(* Python values are modelled as follows.  An Optional[X] is a sequence:   *)
(* None is <<>> and a present value x is <<x>>.  Text is a TLA+ string,    *)
(* concatenated with \o.  A raised exception is a record of its class and  *)
(* its message.  SpecStore drives an AppState on its own; Spec is a        *)
(* process that calls make_reflexive and then uses the instance, with the  *)
(* monitor and the network as its environment.                             *)
(***************************************************************************)
EXTENDS Integers, Sequences, FiniteSets, TLC

VARIABLES
    maxlen,         \* AppState._logs.maxlen
    logs,           \* AppState._logs, oldest first
    appended,       \* history: every entry ever appended, in append order
    custom_state,   \* AppState._custom_state, a function on the keys set so far
    writes,         \* history: every <<key, value>> given to AppState.set_state
    ret,            \* the call that returned last and its result; none while in a call
    env,            \* os.environ: REFLEXIVE_CLI_MODE and REFLEXIVE_CLI_PORT
    options,        \* ReflexiveInstance.options
    mode,           \* the branch of make_reflexive that built the instance
    cli_port,       \* ReflexiveInstance._cli_port
    cli_process,    \* ReflexiveInstance.cli_process
    pc,             \* where the caller is: before construction, idle, or in a call
    call,           \* the call in progress while the caller waits on the network
    sent,           \* the requests issued to the monitor so far
    conn,           \* the HTTP exchange of the call in progress or last returned
    stream,         \* the lines that call has read from the chat response
    full_response,  \* _chat_via_http: the text that call has accumulated
    spawn,          \* the Popen call of _spawn_cli_process: its command and outcome
    proc,           \* the monitor subprocess as the operating system sees it
    signals,        \* the signals sent to the monitor, each with the _cleanup call it came from
    atexit_hooks,   \* the number of _cleanup hooks registered with atexit
    cleanups,       \* the number of _cleanup calls begun so far
    intercepts,     \* the interception layers installed on sys.stdout/sys.stderr
    earlier,        \* the stores of the earlier instances whose layers are still installed
    forwarded,      \* the writes that reached the original stdout/stderr, in order
    reader          \* a second thread inside AppState.search_logs

storeVars == <<maxlen, logs, appended, custom_state, writes>>

instVars == <<env, options, mode, cli_port, cli_process>>

netVars == <<pc, call, sent, conn, stream, full_response>>

lifeVars == <<spawn, proc, signals, atexit_hooks, cleanups, intercepts, earlier, forwarded, reader>>

vars == <<maxlen, logs, appended, custom_state, writes, ret, env, options, mode,
          cli_port, cli_process, pc, call, sent, conn, stream, full_response,
          spawn, proc, signals, atexit_hooks, cleanups, intercepts, earlier, forwarded,
          reader>>

----------------------------------------------------------------------------
(* Bounds of the model *)

MaxCap == 2         \* largest max_logs tried
MaxAppends == 3     \* calls of log per behaviour
MaxCount == 3       \* largest count passed to get_logs
MaxWrites == 2      \* calls of set_state per behaviour
MaxLines == 2       \* lines of one chat response

----------------------------------------------------------------------------
(* Python values *)

None == <<>>

Some(x) == <<x>>

\* bool(x) of an Optional[str]: None and "" are falsy
TruthyStr(o) == o # None /\ o[1] # ""

Min(a, b) == IF a < b THEN a ELSE b

Max(a, b) == IF a > b THEN a ELSE b

\* s[start:] of a Python list, for any integer start
PySliceFrom(s, start) ==
    LET n == Len(s)
        lo == IF start < 0 THEN Max(start + n, 0) ELSE Min(start, n)
    IN  SubSeq(s, lo + 1, n)

\* the last k elements of s (all of s when k >= Len(s))
LastK(s, k) == SubSeq(s, Len(s) - Min(k, Len(s)) + 1, Len(s))

RECURSIVE SelectType(_, _)
\* [log for log in logs if log["type"] == t]
SelectType(s, t) ==
    IF s = <<>> THEN <<>>
    ELSE IF Head(s).type = t THEN <<Head(s)>> \o SelectType(Tail(s), t)
         ELSE SelectType(Tail(s), t)

----------------------------------------------------------------------------
(* AppState *)

\* a deque that refuses the new entry when full instead of evicting the oldest
DequeAppend_DropNewest(d, n, e) == IF Len(d) >= n THEN d ELSE Append(d, e)

\* deque.append on a deque(maxlen=n): the oldest entry leaves on overflow
DequeAppend(d, n, e) ==
    LET a == Append(d, e)
    IN  IF Len(a) > n THEN Tail(a) ELSE a

\* the entry AppState.log builds; the timestamp is a clock that ticks per append
NewEntry(history, log_type, message, meta) ==
    [type |-> log_type, message |-> message,
     timestamp |-> Len(history) + 1, meta |-> meta]

\* AppState.log
AppStateLog(log_type, message, meta) ==
    /\ logs' = DequeAppend(logs, maxlen, NewEntry(appended, log_type, message, meta))
    /\ appended' = Append(appended, NewEntry(appended, log_type, message, meta))
    /\ UNCHANGED <<maxlen, custom_state, writes>>

\* the list AppState.get_logs returns
GetLogsResult(d, count, log_type) ==
    LET filtered == IF TruthyStr(log_type) THEN SelectType(d, log_type[1]) ELSE d
    IN  IF count # None THEN PySliceFrom(filtered, 0 - count[1]) ELSE filtered

\* dict.setdefault in place of assignment: the first value of a key stays
DictSet_KeepFirst(d, key, value) ==
    [k \in (DOMAIN d) \cup {key} |-> IF k \in DOMAIN d THEN d[k] ELSE value]

\* self._custom_state[key] = value
DictSet(d, key, value) ==
    [k \in (DOMAIN d) \cup {key} |-> IF k = key THEN value ELSE d[k]]

\* self._custom_state.get(key)
DictGet(d, key) == IF key \in DOMAIN d THEN d[key] ELSE None

\* AppState.set_state
AppStateSetState(key, value) ==
    /\ custom_state' = DictSet(custom_state, key, value)
    /\ writes' = Append(writes, <<key, value>>)
    /\ UNCHANGED <<maxlen, logs, appended>>

\* what AppState.get_state returns: the whole dict for None, else dict.get
GetStateResult(d, key) == IF key = None THEN d ELSE DictGet(d, key[1])

----------------------------------------------------------------------------
(* Inputs *)

LogTypes == {"info", "error"}

Messages == {"started", "failed"}

\* the log calls of the application: each kind of entry has its own message
LogInputs == {<<"info", "started">>, <<"error", "failed">>}

\* the regular expressions handed to search_logs; "(" does not compile
Queries == {"start", "^fail", "ed", "("}

Keys == {"test.value", "test.name"}

\* values given to set_state; "<object>" is a value json.dumps rejects
Values == {Some("42"), Some("<object>")}

Counts == {None} \cup {Some(k) : k \in 0..MaxCount}

TypeFilters == {None} \cup {Some(t) : t \in LogTypes}

\* a call that returned value
Returned(op, args, value) == [op |-> op, args |-> args, value |-> value, raised |-> None]

\* no result in hand: the caller is inside a call that waits on the network
InCall == [op |-> "in call", args |-> <<>>, value |-> None, raised |-> None]

\* a call that raised exc
Raised(op, args, exc) == [op |-> op, args |-> args, value |-> None, raised |-> Some(exc)]

----------------------------------------------------------------------------
(* No ReflexiveInstance: the values of the instance and network variables   *)
(* while AppState is used on its own or before make_reflexive has run       *)

NoInstance ==
    /\ options = None
    /\ mode = "NONE"
    /\ cli_port = None
    /\ cli_process = None
    /\ pc = "start"
    /\ call = None
    /\ sent = {}
    /\ conn = "none"
    /\ stream = <<>>
    /\ full_response = ""
    /\ spawn = None
    /\ proc = "none"
    /\ signals = <<>>
    /\ atexit_hooks = 0
    /\ cleanups = 0
    /\ intercepts = 0
    /\ earlier = <<>>
    /\ forwarded = <<>>
    /\ reader = [pc |-> "idle"]

----------------------------------------------------------------------------
(* The store on its own: an AppState driven directly by its caller *)

AppState_init(max_logs) ==
    /\ maxlen = max_logs
    /\ logs = <<>>
    /\ appended = <<>>
    /\ custom_state = <<>>
    /\ writes = <<>>

AppState_log(log_type, message) ==
    /\ UNCHANGED lifeVars
    /\ Len(appended) < MaxAppends
    /\ AppStateLog(log_type, message, None)
    /\ ret' = Returned("log", <<log_type, message>>, None)
    /\ UNCHANGED <<instVars, netVars>>

AppState_get_logs(count, log_type) ==
    /\ UNCHANGED lifeVars
    /\ ret' = Returned("get_logs", <<count, log_type>>,
                       GetLogsResult(logs, count, log_type))
    /\ UNCHANGED <<storeVars, instVars, netVars>>

AppState_set_state(key, value) ==
    /\ UNCHANGED lifeVars
    /\ Len(writes) < MaxWrites
    /\ AppStateSetState(key, value)
    /\ ret' = Returned("set_state", <<key, value>>, None)
    /\ UNCHANGED <<instVars, netVars>>

AppState_get_state(key) ==
    /\ UNCHANGED lifeVars
    /\ ret' = Returned("get_state", <<key>>, GetStateResult(custom_state, key))
    /\ UNCHANGED <<storeVars, instVars, netVars>>

\* every query is taken to be well formed
ReCompile_Lenient(query) ==
    [error |-> None, pattern |-> Some([anchored |-> FALSE, literal |-> query])]

\* re.compile(query): an unbalanced parenthesis raises re.error, a leading ^
\* anchors the pattern, and the characters that follow stand for themselves
ReCompile(query) ==
    IF query = "("
    THEN [error |-> Some("re.error"), pattern |-> None]
    ELSE IF Len(query) > 0 /\ SubSeq(query, 1, 1) = "^"
         THEN [error |-> None,
               pattern |-> Some([anchored |-> TRUE, literal |-> SubSeq(query, 2, Len(query))])]
         ELSE [error |-> None, pattern |-> Some([anchored |-> FALSE, literal |-> query])]

\* pattern.search(message): the literal at the start, or anywhere, of the message
ReSearch(pattern, message) ==
    LET n == Len(pattern.literal)
        at(i) == i + n - 1 <= Len(message) /\ SubSeq(message, i, i + n - 1) = pattern.literal
    IN  IF pattern.anchored THEN at(1)
        ELSE \E i \in 1..(Len(message) + 1) : at(i)

RECURSIVE SelectMatching(_, _)
\* [log for log in d if pattern.search(log["message"])]
SelectMatching(d, pattern) ==
    IF d = <<>> THEN <<>>
    ELSE IF ReSearch(pattern, Head(d).message)
         THEN <<Head(d)>> \o SelectMatching(Tail(d), pattern)
         ELSE SelectMatching(Tail(d), pattern)

\* search_logs(query) by a caller that nothing interrupts
AppState_search_logs(query) ==
    /\ UNCHANGED lifeVars
    /\ ret' = IF ReCompile(query).error # None
              THEN Raised("search_logs", <<query>>, ReCompile(query).error[1])
              ELSE Returned("search_logs", <<query>>,
                            SelectMatching(logs, ReCompile(query).pattern[1]))
    /\ UNCHANGED <<storeVars, instVars, netVars>>

InitStore ==
    /\ \E n \in 0..MaxCap : AppState_init(n)
    /\ ret = Returned("AppState", <<>>, None)
    /\ env = [REFLEXIVE_CLI_MODE |-> None, REFLEXIVE_CLI_PORT |-> None]
    /\ NoInstance

NextStore ==
    \/ \E l \in LogInputs : AppState_log(l[1], l[2])
    \/ \E c \in Counts, t \in TypeFilters : AppState_get_logs(c, t)
    \/ \E k \in Keys, v \in Values : AppState_set_state(k, v)
    \/ \E k \in {None} \cup {Some(k) : k \in Keys} : AppState_get_state(k)
    \/ \E q \in Queries : AppState_search_logs(q)

SpecStore == InitStore /\ [][NextStore]_vars

----------------------------------------------------------------------------
(* A second thread in search_logs.  The interpreter runs one thread at a    *)
(* time and may switch between two turns of the comprehension; append,      *)
(* list(deque) and the dict operations are single steps of the interpreter. *)
(* The deque iterator remembers the deque's mutation count, which is the    *)
(* number of appends so far.                                                *)

\* search_logs up to iter(self._logs)
search_begin(query) ==
    /\ reader.pc = "idle"
    /\ reader' = IF ReCompile(query).error # None
                 THEN [pc |-> "done", query |-> query,
                       raised |-> ReCompile(query).error, value |-> None]
                 ELSE [pc |-> "iter", query |-> query, state |-> Len(appended),
                       index |-> 1, found |-> <<>>]
    /\ UNCHANGED <<storeVars, ret, instVars, netVars>>
    /\ UNCHANGED <<spawn, proc, signals, atexit_hooks, cleanups, intercepts, earlier, forwarded>>

\* one turn of `for log in self._logs`: the iterator first checks that the
\* deque was not mutated, then ends or hands out the next entry
search_next ==
    /\ reader.pc = "iter"
    /\ reader' =
          IF Len(appended) # reader.state
          THEN [pc |-> "done", query |-> reader.query,
                raised |-> Some("RuntimeError"), value |-> None]
          ELSE IF reader.index > Len(logs)
          THEN [pc |-> "done", query |-> reader.query,
                raised |-> None, value |-> Some(reader.found)]
          ELSE [reader EXCEPT
                  !.index = @ + 1,
                  !.found = IF ReSearch(ReCompile(reader.query).pattern[1],
                                        logs[reader.index].message)
                            THEN Append(@, logs[reader.index]) ELSE @]
    /\ UNCHANGED <<storeVars, ret, instVars, netVars>>
    /\ UNCHANGED <<spawn, proc, signals, atexit_hooks, cleanups, intercepts, earlier, forwarded>>

\* one thread logs, sets and reads while another searches
NextThreads ==
    \/ \E l \in LogInputs : AppState_log(l[1], l[2])
    \/ AppState_get_logs(None, None)
    \/ AppState_set_state("test.value", Some("42"))
    \/ AppState_get_state(Some("test.value"))
    \/ \E q \in Queries : search_begin(q)
    \/ search_next

SpecThreads == InitStore /\ [][NextThreads]_vars

----------------------------------------------------------------------------
(* Exceptions: a raised exception is [class, msg]; every class modelled    *)
(* here derives from Exception                                             *)

Exc(class, msg) == [class |-> class, msg |-> msg]

\* does `except <clause>` catch an exception of class cls
Catches(clause, cls) == clause = "Exception" \/ clause = cls

\* the result of a step of a try body: it raised exc, or went on with value val
Threw(exc) == [exc |-> Some(exc), val |-> None]

Went(val) == [exc |-> None, val |-> Some(val)]

----------------------------------------------------------------------------
(* JSON as the bridge reads it.  A document is invalid text, a scalar, or  *)
(* an object given as a function from field names to JSON values.          *)

JStr(s) == [j |-> "string", s |-> s]

JInt == [j |-> "int"]

JNull == [j |-> "null"]

JObject(fields) == [j |-> "object", fields |-> fields]

JInvalid == [j |-> "invalid"]

\* json.loads(payload)
JsonLoads(payload) ==
    IF payload = JInvalid THEN Threw(Exc("JSONDecodeError", "Expecting value"))
    ELSE Went(payload)

\* chunk.get(key, default)
ChunkGet(chunk, key, default) ==
    IF chunk.j # "object"
    THEN Threw(Exc("AttributeError", "'int' object has no attribute 'get'"))
    ELSE Went(IF key \in DOMAIN chunk.fields THEN chunk.fields[key] ELSE default)

\* json.dumps of a set_state value
JsonDumps(value) ==
    IF value = Some("<object>")
    THEN Threw(Exc("TypeError", "Object of type object is not JSON serializable"))
    ELSE Went(value)

----------------------------------------------------------------------------
(* Lines of the chat response.  data says whether the line starts with     *)
(* "data: "; payload is the text after that prefix.                        *)

DataLine(payload) == [data |-> TRUE, payload |-> payload]

TextFrame(content) == DataLine(JObject([type |-> JStr("text"), content |-> JStr(content)]))

StatusFrame == DataLine(JObject([type |-> JStr("status"), content |-> JStr("thinking")]))

BlankLine == [data |-> FALSE, payload |-> JInvalid]

BadJsonLine == DataLine(JInvalid)

ScalarLine == DataLine(JInt)

IntContentFrame == DataLine(JObject([type |-> JStr("text"), content |-> JInt]))

Lines == {TextFrame("pong "), TextFrame("ok"), TextFrame(""), StatusFrame,
          BlankLine, BadJsonLine, ScalarLine, IntContentFrame}

----------------------------------------------------------------------------
(* _chat_via_http: decoding one line of the event stream *)

\* the fragment put in front of the text instead of behind it
AddFragment_Prepend(full, content) ==
    IF content.j = "string" THEN Went(content.s \o full)
    ELSE Threw(Exc("TypeError", "can only concatenate str (not \"int\") to str"))

\* full_response += content
AddFragment(full, content) ==
    IF content.j = "string" THEN Went(full \o content.s)
    ELSE Threw(Exc("TypeError", "can only concatenate str (not \"int\") to str"))

\* the body of the inner try: loads, the type test, the concatenation
LineBody(full, line) ==
    LET c == JsonLoads(line.payload)
    IN  IF c.exc # None THEN Threw(c.exc[1])
        ELSE LET t == ChunkGet(c.val[1], "type", JNull)
             IN  IF t.exc # None THEN Threw(t.exc[1])
                 ELSE IF t.val[1] # JStr("text") THEN Went(full)
                 ELSE AddFragment(full, ChunkGet(c.val[1], "content", JStr("")).val[1])

\* except json.JSONDecodeError: pass
LineExcept(cls) == Catches("JSONDecodeError", cls)

\* one iteration of `for line in response`
HandleLine(full, line) ==
    IF ~line.data THEN Went(full)
    ELSE LET b == LineBody(full, line)
         IN  IF b.exc # None /\ LineExcept(b.exc[1].class) THEN Went(full) ELSE b

\* a handler that catches only the failure to connect
ChatExcept_URLErrorOnly(cls) == Catches("URLError", cls)

\* except Exception as e, around _chat_via_http
ChatExcept(cls) == Catches("Exception", cls)

\* a handler that catches only the failure to connect
SyncExcept_URLErrorOnly(cls) == Catches("URLError", cls)

\* except Exception, around _sync_state_to_cli
SyncExcept(cls) == Catches("Exception", cls)

\* how chat ends when e is raised inside the try of _chat_via_http
ChatRaise(args, e) ==
    IF ChatExcept(e.class) THEN Returned("chat", args, "Error: " \o e.msg)
    ELSE Raised("chat", args, e.class)

\* how set_state ends when e is raised inside the try of _sync_state_to_cli
SyncRaise(args, e) ==
    IF SyncExcept(e.class) THEN Returned("set_state", args, None)
    ELSE Raised("set_state", args, e.class)

\* the accumulated text returned as it is
ChatAnswer_Raw(full) == full

\* full_response or "No response"
ChatAnswer(full) == IF full # "" THEN full ELSE "No response"

ChatUnavailable ==
    "Error: Chat requires running under Reflexive CLI (run: reflexive app.py)"

\* bool(x) of an Optional[int]: None and 0 are falsy
TruthyInt(o) == o # None /\ o[1] # 0

\* what urlopen raises before a response arrives
OpenErrors ==
    {Exc("URLError", "<urlopen error [Errno 111] Connection refused>"),
     Exc("HTTPError", "HTTP Error 500: Internal Server Error"),
     Exc("TimeoutError", "timed out")}

\* what reading the response raises when the connection drops or stalls
ReadErrors ==
    {Exc("IncompleteRead", "IncompleteRead(0 bytes read)"),
     Exc("TimeoutError", "timed out")}

----------------------------------------------------------------------------
(* make_reflexive *)

DefaultMaxLogs == 500

DefaultPort == 3099

\* int(cli_port_str) for the port strings of the model
ParseInt(str) == CASE str = "3099" -> 3099 [] str = "0" -> 0

\* does int(str) return (it raises ValueError otherwise)
IntParses(str) == str \in {"3099", "0"}

\* os.environ as the launching environment set it
Envs ==
    {[REFLEXIVE_CLI_MODE |-> None, REFLEXIVE_CLI_PORT |-> None],
     [REFLEXIVE_CLI_MODE |-> None, REFLEXIVE_CLI_PORT |-> Some("3099")],
     [REFLEXIVE_CLI_MODE |-> Some("true"), REFLEXIVE_CLI_PORT |-> None],
     [REFLEXIVE_CLI_MODE |-> Some("true"), REFLEXIVE_CLI_PORT |-> Some("3099")],
     [REFLEXIVE_CLI_MODE |-> Some("true"), REFLEXIVE_CLI_PORT |-> Some("0")],
     [REFLEXIVE_CLI_MODE |-> Some("true"), REFLEXIVE_CLI_PORT |-> Some("auto")]}

\* the options dict: an absent key is None
OptionSets ==
    [spawn_cli : BOOLEAN, port : {None, Some(8080)}, max_logs : {None, Some(1)},
     write : {None}, debug : {None}, shell : {None}, entry : {None}]

\* the options that reach the command line of the monitor
SpawnOptionSets ==
    [spawn_cli : BOOLEAN, port : {None, Some(8080)}, max_logs : {None},
     write : {None, Some(FALSE)}, debug : {None, Some(TRUE)},
     shell : {None, Some(TRUE)}, entry : {None, Some("main.py")}]

\* the options of the plain and of the spawning application
LifeOptionSets ==
    [spawn_cli : BOOLEAN, port : {None}, max_logs : {None},
     write : {None}, debug : {None}, shell : {None}, entry : {None}]

\* {}: the options of an instance built without any
EmptyOptions ==
    [spawn_cli |-> FALSE, port |-> None, max_logs |-> None,
     write |-> None, debug |-> None, shell |-> None, entry |-> None]

\* sys.argv[0]: the script the application was started as
Argv0 == "app.py"

\* opts.get(key, default)
OptGet(o, default) == IF o = None THEN default ELSE o[1]

\* how _spawn_cli_process can end: a live process, an early exit, or Popen raising
SpawnOutcomes == {"running", "exited_early", "FileNotFoundError", "OSError"}

\* the command line _spawn_cli_process hands to Popen
CliCmd(entry_file, opts) ==
    <<"npx", "reflexive">>
    \o (IF OptGet(opts.write, TRUE) THEN <<"--write">> ELSE <<>>)
    \o (IF OptGet(opts.debug, FALSE) THEN <<"--debug">> ELSE <<>>)
    \o (IF OptGet(opts.shell, FALSE) THEN <<"--shell">> ELSE <<>>)
    \o <<entry_file>>

\* the Popen call made for a spawning application, None when nothing is launched
PopenCall(opts, outcome) ==
    IF opts.spawn_cli
    THEN Some([cmd |-> CliCmd(OptGet(opts.entry, Argv0), opts), outcome |-> outcome])
    ELSE None

\* the subprocess after _spawn_cli_process: alive, gone within the two seconds, or never started
ProcessAfterSpawn(opts, outcome) ==
    CASE opts.spawn_cli /\ outcome = "running" -> "running"
      [] opts.spawn_cli /\ outcome = "exited_early" -> "exited"
      [] OTHER -> "none"

\* the process is handed back although it has exited
SpawnCliProcess_NoPoll(outcome) ==
    IF outcome \in {"running", "exited_early"} THEN Some("Popen") ELSE None

\* _spawn_cli_process returns the process only if it is still running after the wait
SpawnCliProcess(outcome) == IF outcome = "running" THEN Some("Popen") ELSE None

\* the port recorded whether or not the spawn succeeded
SpawnedPort_Always(process, port) == Some(port)

\* cli_port is set only when a process was spawned
SpawnedPort(process, port) == IF process # None THEN Some(port) ELSE None

\* what make_reflexive and _spawn_cli_process print once stdout is intercepted
SpawnPrints(outcome) ==
    <<"[reflexive] Spawning Reflexive CLI">> \o
    CASE outcome = "running" ->
           <<"[reflexive] CLI started", "[reflexive] Dashboard">>
      [] outcome = "exited_early" ->
           <<"[reflexive] CLI process exited early", "[reflexive] Falling back to standalone mode">>
      [] outcome = "FileNotFoundError" ->
           <<"[reflexive] Error: Reflexive CLI not found", "[reflexive] Falling back to standalone mode">>
      [] outcome = "OSError" ->
           <<"[reflexive] Error starting CLI", "[reflexive] Falling back to standalone mode">>

RECURSIVE LogEach(_, _, _, _, _)
\* app_state.log(log_type, m) for each m of msgs, on a store d with history h
LogEach(d, h, n, log_type, msgs) ==
    IF msgs = <<>> THEN [logs |-> d, appended |-> h]
    ELSE LogEach(DequeAppend(d, n, NewEntry(h, log_type, Head(msgs), None)),
                 Append(h, NewEntry(h, log_type, Head(msgs), None)),
                 n, log_type, Tail(msgs))

\* the modes of an instance built on the path that calls _intercept_logging
ParentModes == {"PARENT_STANDALONE", "PARENT_SPAWNED"}

\* what _create_client_reflexive prints
ChildPrints == <<"[reflexive] Running in CLI child mode">>

\* the store of the instance being replaced stays wired to the layer it installed
Retire(es, m, h) ==
    IF m \in ParentModes THEN Append(es, [before |-> h, appended |-> h]) ELSE es

\* every layer below the newest logs the same texts to the store it was built for
EachLog(es, log_type, msgs) ==
    [i \in DOMAIN es |->
        [es[i] EXCEPT !.appended = LogEach(<<>>, @, 0, log_type, msgs).appended]]

\* ReflexiveInstance.__init__ registers _cleanup only for an instance with a process
AtexitRegister(hooks, process) == IF process # None THEN hooks + 1 ELSE hooks

\* the branch taken when the environment marks CLI child mode with a port
make_reflexive_child(opts) ==
    IF ~IntParses(env.REFLEXIVE_CLI_PORT[1])
    THEN /\ ret' = Raised("make_reflexive", <<opts>>, "ValueError")
         /\ pc' = "failed"
         /\ UNCHANGED <<storeVars, instVars, call, sent, conn, stream, full_response>>
         /\ UNCHANGED lifeVars
    ELSE /\ maxlen' = DefaultMaxLogs
         /\ logs' = <<>>
         /\ appended' = <<>>
         /\ custom_state' = <<>>
         /\ writes' = <<>>
         /\ mode' = "CHILD"
         /\ cli_port' = Some(ParseInt(env.REFLEXIVE_CLI_PORT[1]))
         /\ cli_process' = None
         /\ options' = Some(EmptyOptions)
         /\ pc' = "ready"
         /\ ret' = Returned("make_reflexive", <<opts>>, None)
         /\ atexit_hooks' = AtexitRegister(atexit_hooks, None)
         /\ earlier' = EachLog(Retire(earlier, mode, appended), "stdout", ChildPrints)
         /\ UNCHANGED <<env, call, sent, conn, stream, full_response>>
         /\ UNCHANGED <<spawn, proc, signals, cleanups, intercepts, forwarded, reader>>

\* the standalone branch, which spawns the CLI when asked to
make_reflexive_parent(opts, outcome) ==
    LET process == IF opts.spawn_cli THEN SpawnCliProcess(outcome) ELSE None
        port == IF opts.spawn_cli
                THEN SpawnedPort(process, OptGet(opts.port, DefaultPort)) ELSE None
        printed == IF opts.spawn_cli THEN SpawnPrints(outcome) ELSE <<>>
        store == LogEach(<<>>, <<>>, OptGet(opts.max_logs, DefaultMaxLogs), "stdout", printed)
    IN  /\ maxlen' = OptGet(opts.max_logs, DefaultMaxLogs)
        /\ logs' = store.logs
        /\ appended' = store.appended
        /\ custom_state' = <<>>
        /\ writes' = <<>>
        /\ mode' = IF process # None THEN "PARENT_SPAWNED" ELSE "PARENT_STANDALONE"
        /\ cli_port' = port
        /\ cli_process' = process
        /\ options' = Some(opts)
        /\ pc' = "ready"
        /\ ret' = Returned("make_reflexive", <<opts>>, None)
        /\ intercepts' = intercepts + 1
        /\ earlier' = EachLog(Retire(earlier, mode, appended), "stdout", printed)
        /\ spawn' = PopenCall(opts, outcome)
        /\ proc' = ProcessAfterSpawn(opts, outcome)
        /\ atexit_hooks' = AtexitRegister(atexit_hooks, process)
        /\ UNCHANGED <<env, call, sent, conn, stream, full_response>>
        /\ UNCHANGED <<signals, cleanups, forwarded, reader>>

\* the child branch taken on the port alone
CliChild_PortOnly(e) == TruthyStr(e.REFLEXIVE_CLI_PORT)

\* `if cli_mode and cli_port_str`: the environment of a process the CLI launched
CliChild(e) == e.REFLEXIVE_CLI_MODE = Some("true") /\ TruthyStr(e.REFLEXIVE_CLI_PORT)

make_reflexive(opts, outcome) ==
    /\ pc = "start"
    /\ IF CliChild(env)
       THEN make_reflexive_child(opts)
       ELSE make_reflexive_parent(opts, outcome)

\* the number of interception layers a process is followed to
MaxLayers == 2

\* make_reflexive called once more by a process that already holds an instance
make_reflexive_again(opts, outcome) ==
    /\ pc = "ready"
    /\ intercepts < MaxLayers
    /\ IF CliChild(env)
       THEN make_reflexive_child(opts)
       ELSE make_reflexive_parent(opts, outcome)

----------------------------------------------------------------------------
(* ReflexiveInstance *)

\* a request on the wire
Request(path) == [path |-> path, port |-> cli_port[1]]

\* a call that talks to nobody: the response and the locals of the previous
\* call are gone, and the caller stays in the application
NoExchange ==
    /\ conn' = "none"
    /\ stream' = <<>>
    /\ full_response' = ""
    /\ UNCHANGED <<pc, call, sent>>

\* the caller is back in the application with result r
ReturnTo(r) ==
    /\ ret' = r
    /\ pc' = "ready"
    /\ call' = None

log(log_type, message) ==
    /\ UNCHANGED lifeVars
    /\ pc = "ready"
    /\ Len(appended) < MaxAppends
    /\ AppStateLog(log_type, message, None)
    /\ ret' = Returned("log", <<log_type, message>>, None)
    /\ NoExchange
    /\ UNCHANGED instVars

get_logs(count, log_type) ==
    /\ UNCHANGED lifeVars
    /\ pc = "ready"
    /\ ret' = Returned("get_logs", <<count, log_type>>,
                       GetLogsResult(logs, count, log_type))
    /\ NoExchange
    /\ UNCHANGED <<storeVars, instVars>>

get_state(key) ==
    /\ UNCHANGED lifeVars
    /\ pc = "ready"
    /\ ret' = Returned("get_state", <<key>>, GetStateResult(custom_state, key))
    /\ NoExchange
    /\ UNCHANGED <<storeVars, instVars>>

\* set_state up to the point where _sync_state_to_cli waits in urlopen
set_state(key, value) ==
    /\ UNCHANGED lifeVars
    /\ pc = "ready"
    /\ Len(writes) < MaxWrites
    /\ AppStateSetState(key, value)
    /\ IF ~TruthyInt(cli_port)
       THEN /\ ret' = Returned("set_state", <<key, value>>, None)
            /\ NoExchange
       ELSE IF JsonDumps(value).exc # None
       THEN /\ ret' = SyncRaise(<<key, value>>, JsonDumps(value).exc[1])
            /\ NoExchange
       ELSE /\ pc' = "sync_wait"
            /\ call' = Some([op |-> "set_state", args |-> <<key, value>>])
            /\ sent' = sent \cup {Request("/client-state")}
            /\ conn' = "pending"
            /\ stream' = <<>>
            /\ full_response' = ""
            /\ ret' = InCall
    /\ UNCHANGED instVars

\* urlopen(req, timeout=1) returns a response, which is dropped
sync_urlopen_returns ==
    /\ UNCHANGED lifeVars
    /\ pc = "sync_wait"
    /\ conn' = "done"
    /\ ReturnTo(Returned("set_state", call[1].args, None))
    /\ UNCHANGED <<storeVars, instVars, sent, stream, full_response>>

\* urlopen(req, timeout=1) raises: refused, timed out, error status
sync_urlopen_raises(e) ==
    /\ UNCHANGED lifeVars
    /\ pc = "sync_wait"
    /\ conn' = "failed"
    /\ ReturnTo(SyncRaise(call[1].args, e))
    /\ UNCHANGED <<storeVars, instVars, sent, stream, full_response>>

\* chat up to the point where _chat_via_http waits in urlopen
chat(message) ==
    /\ UNCHANGED lifeVars
    /\ pc = "ready"
    /\ IF ~TruthyInt(cli_port)
       THEN /\ ret' = Returned("chat", <<message>>, ChatUnavailable)
            /\ NoExchange
       ELSE /\ pc' = "chat_open"
            /\ call' = Some([op |-> "chat", args |-> <<message>>])
            /\ sent' = sent \cup {Request("/chat")}
            /\ conn' = "pending"
            /\ stream' = <<>>
            /\ full_response' = ""
            /\ ret' = InCall
    /\ UNCHANGED <<storeVars, instVars>>

\* urlopen(req, timeout=60) raises before any line is read
chat_urlopen_raises(e) ==
    /\ UNCHANGED lifeVars
    /\ pc = "chat_open"
    /\ conn' = "failed"
    /\ ReturnTo(ChatRaise(call[1].args, e))
    /\ UNCHANGED <<storeVars, instVars, sent, stream, full_response>>

\* urlopen(req, timeout=60) returns the response; full_response = ""
chat_urlopen_returns ==
    /\ UNCHANGED lifeVars
    /\ pc = "chat_open"
    /\ pc' = "chat_read"
    /\ conn' = "open"
    /\ full_response' = ""
    /\ UNCHANGED <<ret, call, storeVars, instVars, sent, stream>>

\* the loop reads one more line; an exception the inner except lets through
\* leaves the with block, which closes the response
chat_read_line(line) ==
    /\ UNCHANGED lifeVars
    /\ pc = "chat_read"
    /\ Len(stream) < MaxLines
    /\ stream' = Append(stream, line)
    /\ LET h == HandleLine(full_response, line)
       IN  IF h.exc = None
           THEN /\ full_response' = h.val[1]
                /\ UNCHANGED <<ret, pc, call, conn>>
           ELSE /\ conn' = "closed"
                /\ ReturnTo(ChatRaise(call[1].args, h.exc[1]))
                /\ UNCHANGED full_response
    /\ UNCHANGED <<storeVars, instVars, sent>>

\* reading the next line raises: the connection dropped or the timeout expired
chat_read_raises(e) ==
    /\ UNCHANGED lifeVars
    /\ pc = "chat_read"
    /\ conn' = "failed"
    /\ ReturnTo(ChatRaise(call[1].args, e))
    /\ UNCHANGED <<storeVars, instVars, sent, stream, full_response>>

\* the response ends: return full_response or "No response"
chat_stream_ends ==
    /\ UNCHANGED lifeVars
    /\ pc = "chat_read"
    /\ conn' = "done"
    /\ ReturnTo(Returned("chat", call[1].args, ChatAnswer(full_response)))
    /\ UNCHANGED <<storeVars, instVars, sent, stream, full_response>>

----------------------------------------------------------------------------
(* The instance in its process *)

Init ==
    /\ AppState_init(DefaultMaxLogs)
    /\ ret = Returned("start", <<>>, None)
    /\ env \in Envs
    /\ NoInstance

Next ==
    \/ \E o \in OptionSets, out \in SpawnOutcomes : make_reflexive(o, out)
    \/ log("info", "started")
    \/ \E c \in {None, Some(1)} : get_logs(c, None)
    \/ \E v \in Values : set_state("test.value", v)
    \/ get_state(Some("test.value"))
    \/ sync_urlopen_returns
    \/ \E e \in OpenErrors : sync_urlopen_raises(e)
    \/ chat("ping")
    \/ \E e \in OpenErrors : chat_urlopen_raises(e)
    \/ chat_urlopen_returns
    \/ \E l \in Lines : chat_read_line(l)
    \/ \E e \in ReadErrors : chat_read_raises(e)
    \/ chat_stream_ends

Spec == Init /\ [][Next]_vars

----------------------------------------------------------------------------
(* The monitor subprocess and ReflexiveInstance._cleanup                    *)
(* proc is "none" (never started), "running", "terminating" (SIGTERM sent,  *)
(* not yet exited), "killed" (SIGKILL sent, not yet dead) or "exited"       *)

\* the number of direct _cleanup calls the application makes
MaxCleanups == 2

\* Popen.poll(): None until the process has exited
Poll(p) == IF p = "exited" THEN Some("returncode") ELSE None

\* Popen.terminate() on a process that has not exited
Terminate(p) == IF p = "running" THEN "terminating" ELSE p

\* a kill that never reaches the process
Kill_Ignored(p) == p

\* Popen.kill(): the process cannot ignore it, and dies some time later
Kill(p) == IF p = "exited" THEN p ELSE "killed"

\* a signal sent by the n-th _cleanup call
Signal(n, sig) == [call |-> n, sig |-> sig]

\* the handle is forgotten once cleaned up
HandleAfterCleanup_Dropped(process) == None

\* _cleanup assigns nothing: the instance keeps its handle
HandleAfterCleanup(process) == process

\* _cleanup is over: a direct caller carries on, the exiting interpreter is gone
CleanupReturn(caller) ==
    /\ cli_process' = HandleAfterCleanup(cli_process)
    /\ ret' = Returned(caller, <<>>, None)
    /\ pc' = IF caller = "atexit" THEN "terminated" ELSE "ready"
    /\ call' = None

\* _cleanup up to cli_process.wait(timeout=5)
CleanupBegin(caller) ==
    /\ cleanups' = cleanups + 1
    /\ IF cli_process # None /\ Poll(proc) = None
       THEN /\ signals' = Append(signals, Signal(cleanups + 1, "SIGTERM"))
            /\ proc' = Terminate(proc)
            /\ pc' = "cleanup_wait"
            /\ call' = Some([op |-> caller, args |-> <<>>])
            /\ ret' = InCall
            /\ UNCHANGED cli_process
       ELSE /\ CleanupReturn(caller)
            /\ UNCHANGED <<signals, proc>>
    /\ UNCHANGED <<storeVars, env, options, mode, cli_port, sent, conn, stream, full_response>>
    /\ UNCHANGED <<spawn, atexit_hooks, intercepts, earlier, forwarded, reader>>

\* the application calls r._cleanup() itself
cleanup ==
    /\ pc = "ready"
    /\ cleanups < MaxCleanups
    /\ CleanupBegin("_cleanup")

\* the interpreter exits and runs the atexit hooks
exit_process ==
    /\ pc = "ready"
    /\ IF atexit_hooks > 0
       THEN CleanupBegin("atexit")
       ELSE /\ pc' = "terminated"
            /\ ret' = Returned("exit", <<>>, None)
            /\ UNCHANGED <<storeVars, instVars, call, sent, conn, stream, full_response>>
            /\ UNCHANGED lifeVars

\* wait(timeout=5) returns: the process exited within the timeout
cleanup_wait_returns ==
    /\ pc = "cleanup_wait"
    /\ proc = "exited"
    /\ CleanupReturn(call[1].op)
    /\ UNCHANGED <<storeVars, env, options, mode, cli_port, sent, conn, stream, full_response>>
    /\ UNCHANGED lifeVars

\* wait(timeout=5) raises TimeoutExpired: the handler kills and does not wait again
cleanup_wait_times_out ==
    /\ pc = "cleanup_wait"
    /\ proc # "exited"
    /\ signals' = Append(signals, Signal(cleanups, "SIGKILL"))
    /\ proc' = Kill(proc)
    /\ CleanupReturn(call[1].op)
    /\ UNCHANGED <<storeVars, env, options, mode, cli_port, sent, conn, stream, full_response>>
    /\ UNCHANGED <<spawn, atexit_hooks, cleanups, intercepts, earlier, forwarded, reader>>

\* the monitor exits, on its own or on SIGTERM
monitor_exits ==
    /\ proc \in {"running", "terminating"}
    /\ proc' = "exited"
    /\ UNCHANGED <<storeVars, ret, instVars, netVars>>
    /\ UNCHANGED <<spawn, signals, atexit_hooks, cleanups, intercepts, earlier, forwarded, reader>>

\* the killed monitor is gone
killed_dies ==
    /\ proc = "killed"
    /\ proc' = "exited"
    /\ UNCHANGED <<storeVars, ret, instVars, netVars>>
    /\ UNCHANGED <<spawn, signals, atexit_hooks, cleanups, intercepts, earlier, forwarded, reader>>

\* os.environ as the application may leave it after construction
LifeEnvs ==
    {[REFLEXIVE_CLI_MODE |-> None, REFLEXIVE_CLI_PORT |-> None],
     [REFLEXIVE_CLI_MODE |-> Some("true"), REFLEXIVE_CLI_PORT |-> Some("3099")]}

\* the application changes os.environ after the instance was built
environ_set(e) ==
    /\ pc = "ready"
    /\ env # e
    /\ env' = e
    /\ UNCHANGED <<storeVars, ret, options, mode, cli_port, cli_process, netVars>>
    /\ UNCHANGED lifeVars

\* an application that builds an instance, cleans up and exits
NextSpawn ==
    \/ \E opts \in SpawnOptionSets, outcome \in SpawnOutcomes : make_reflexive(opts, outcome)
    \/ cleanup
    \/ exit_process
    \/ cleanup_wait_returns
    \/ cleanup_wait_times_out
    \/ monitor_exits
    \/ killed_dies

SpecSpawn == Init /\ [][NextSpawn]_vars

\* an application that uses its instance while the monitor and the
\* environment change under it
NextLife ==
    \/ \E o \in LifeOptionSets, out \in SpawnOutcomes : make_reflexive(o, out)
    \/ log("info", "started")
    \/ get_logs(None, None)
    \/ set_state("test.value", Some("42"))
    \/ get_state(Some("test.value"))
    \/ sync_urlopen_returns
    \/ sync_urlopen_raises(Exc("TimeoutError", "timed out"))
    \/ chat("ping")
    \/ chat_urlopen_raises(Exc("TimeoutError", "timed out"))
    \/ chat_urlopen_returns
    \/ chat_read_line(TextFrame("ok"))
    \/ chat_read_raises(Exc("TimeoutError", "timed out"))
    \/ chat_stream_ends
    \/ cleanup
    \/ exit_process
    \/ cleanup_wait_returns
    \/ cleanup_wait_times_out
    \/ monitor_exits
    \/ killed_dies
    \/ \E e \in LifeEnvs : environ_set(e)

SpecLife == Init /\ [][NextLife]_vars

----------------------------------------------------------------------------
(* sys.stdout.write and sys.stderr.write after _intercept_logging           *)

\* the number of writes the application makes
MaxForwards == 2

\* what the application writes: print("hello") is the first and the third
Texts == {"hello", "  done  \n", "\n", "   ", ""}

IsSpace(c) == c \in {" ", "\n", "\t"}

RECURSIVE RStrip(_)
\* text.rstrip()
RStrip(text) ==
    IF Len(text) > 0 /\ IsSpace(SubSeq(text, Len(text), Len(text)))
    THEN RStrip(SubSeq(text, 1, Len(text) - 1))
    ELSE text

RECURSIVE LStrip(_)
\* text.lstrip()
LStrip(text) ==
    IF Len(text) > 0 /\ IsSpace(SubSeq(text, 1, 1))
    THEN LStrip(SubSeq(text, 2, Len(text)))
    ELSE text

\* text.strip()
Strip(text) == LStrip(RStrip(text))

\* only the empty text is held back from the log
Logged_NonEmpty(text) == text # ""

\* `if text and text.strip()`
Logged(text) == text # "" /\ Strip(text) # ""

\* sys.stdout.write(text) and sys.stderr.write(text): the layer of the
\* instance in hand, if it installed one, logs the text to its store and calls
\* the write it replaced, and so does every layer below it down to the
\* original write
write(sink, text) ==
    /\ pc = "ready"
    /\ Len(forwarded) < MaxForwards
    /\ IF mode \in ParentModes /\ Logged(text)
       THEN AppStateLog(sink, RStrip(text), None)
       ELSE UNCHANGED <<logs, appended>>
    /\ earlier' = IF Logged(text) THEN EachLog(earlier, sink, <<RStrip(text)>>) ELSE earlier
    /\ forwarded' = Append(forwarded, [sink |-> sink, text |-> text])
    /\ ret' = Returned("write", <<sink, text>>, Some(Len(text)))
    /\ UNCHANGED <<maxlen, custom_state, writes, instVars, netVars>>
    /\ UNCHANGED <<spawn, proc, signals, atexit_hooks, cleanups, intercepts, reader>>

\* an application that builds an instance and writes to its terminal
NextCapture ==
    \/ \E o \in LifeOptionSets, out \in SpawnOutcomes : make_reflexive(o, out)
    \/ \E t \in Texts : write("stdout", t)
    \/ \E t \in Texts : write("stderr", t)
    \/ \E t \in {Some("stdout"), Some("stderr")} : get_logs(None, t)

SpecCapture == Init /\ [][NextCapture]_vars

\* the options of an application that starts no monitor of its own
RepeatOptionSets ==
    [spawn_cli : {FALSE}, port : {None}, max_logs : {None, Some(1)},
     write : {None}, debug : {None}, shell : {None}, entry : {None}]

\* an application that calls make_reflexive more than once and writes to its
\* terminal
NextRepeat ==
    \/ \E o \in RepeatOptionSets, out \in {"running"} : make_reflexive(o, out)
    \/ \E o \in RepeatOptionSets, out \in {"running"} : make_reflexive_again(o, out)
    \/ \E t \in {"hello", "\n"} : write("stdout", t)
    \/ write("stderr", "hello")
    \/ get_logs(None, None)

SpecRepeat == Init /\ [][NextRepeat]_vars

\* wait(timeout=5) ends within five seconds, and a killed process dies
SpecSpawnFair ==
    /\ SpecSpawn
    /\ WF_vars(cleanup_wait_returns \/ cleanup_wait_times_out)
    /\ WF_vars(killed_dies)

----------------------------------------------------------------------------
(* Properties of the store *)

\* C1: the log store never holds more than maxlen entries, and once more
\* than maxlen entries were appended it holds exactly the maxlen most
\* recently appended ones in append order (the oldest were evicted first).
C1_BoundedFifo ==
    /\ Len(logs) <= maxlen
    /\ logs = LastK(appended, maxlen)

\* C1 witness: more entries were appended than a capacity of two holds
C1_Witness == maxlen = 2 /\ Len(appended) > maxlen /\ ret.op = "log"

\* C2: get_logs(count=K) with no type filter returns at most
\* min(K, size) entries, namely the K most recent ones, oldest first,
\* for every K >= 0 including K = 0 and K beyond the size of the store.
C2_CountBound ==
    (ret.op = "get_logs" /\ ret.args[1] # None /\ ret.args[2] = None) =>
        /\ Len(ret.value) <= Min(ret.args[1][1], Len(logs))
        /\ ret.value = LastK(logs, ret.args[1][1])

RECURSIVE LastWritten(_, _)
\* the value of the latest write of key in a history of writes, None if none
LastWritten(w, key) ==
    IF w = <<>> THEN None
    ELSE IF w[Len(w)][1] = key THEN w[Len(w)][2]
         ELSE LastWritten(SubSeq(w, 1, Len(w) - 1), key)

\* C3: get_state(key) returns the value of the latest set_state of that
\* key, returns None for a key that was never set, and never raises; the
\* store holds for each key exactly its latest value.
C3_LastWriteWins ==
    /\ \A k \in Keys : DictGet(custom_state, k) = LastWritten(writes, k)
    /\ (ret.op = "get_state" /\ ret.args[1] # None) =>
            /\ ret.raised = None
            /\ ret.value = LastWritten(writes, ret.args[1][1])

\* C3 witness: a key was set twice to different values and then read
C3_Witness ==
    /\ ret.op = "get_state"
    /\ Len(writes) = 2
    /\ writes[1][1] = writes[2][1]
    /\ writes[1][2] # writes[2][2]
    /\ ret.args[1] = Some(writes[2][1])
    /\ ret.value = writes[2][2]

----------------------------------------------------------------------------
(* Properties of the bridge *)

\* the string starts with "Error: "
ErrorPrefixed(str) == Len(str) >= 7 /\ SubSeq(str, 1, 7) = "Error: "

\* a data line carrying a JSON object of type "text"
IsTextFrame(line) ==
    /\ line.data
    /\ line.payload.j = "object"
    /\ "type" \in DOMAIN line.payload.fields
    /\ line.payload.fields.type = JStr("text")

\* a malformed frame: not valid JSON, valid JSON that is not an object, or a
\* text frame whose content is not a string
Malformed(line) ==
    /\ line.data
    /\ \/ line.payload.j # "object"
       \/ /\ IsTextFrame(line)
          /\ "content" \in DOMAIN line.payload.fields
          /\ line.payload.fields.content.j # "string"

\* the content of a well-formed text frame, "" for any other line
TextOf(line) ==
    IF IsTextFrame(line) /\ ~Malformed(line) /\ "content" \in DOMAIN line.payload.fields
    THEN line.payload.fields.content.s ELSE ""

RECURSIVE TextConcat(_)
\* the contents of the well-formed text frames of a stream, in arrival order
TextConcat(lines) ==
    IF lines = <<>> THEN "" ELSE TextOf(Head(lines)) \o TextConcat(Tail(lines))

\* chat has returned and its response was read to the end without a failure
ChatCompleted == pc = "ready" /\ ret.op = "chat" /\ conn = "done"

\* C4 as stated: in CHILD mode, when the stream completes normally and holds
\* no malformed frame, chat returns exactly the concatenation of the contents
\* of the text frames in arrival order.
C4_ExactConcat ==
    (mode = "CHILD" /\ ChatCompleted /\ \A i \in DOMAIN stream : ~Malformed(stream[i]))
        => ret.value = TextConcat(stream)

\* C4 amended: as C4, but when the concatenation is empty chat returns the
\* placeholder "No response" in its place.
C4_ConcatOrPlaceholder ==
    (mode = "CHILD" /\ ChatCompleted /\ \A i \in DOMAIN stream : ~Malformed(stream[i]))
        => /\ ret.raised = None
           /\ ret.value = IF TextConcat(stream) = "" THEN "No response"
                          ELSE TextConcat(stream)

\* C4 witness: the frames "pong " and "ok" gave "pong ok"
C4_Witness ==
    /\ mode = "CHILD"
    /\ ChatCompleted
    /\ stream = <<TextFrame("pong "), TextFrame("ok")>>
    /\ ret.value = "pong ok"

\* C5: in PARENT_STANDALONE mode no request is ever issued, and chat returns
\* without raising a non-empty string saying that chat is unavailable.
C5_StandaloneChat ==
    mode = "PARENT_STANDALONE" =>
        /\ sent = {}
        /\ conn = "none"
        /\ ret.op = "chat" =>
              /\ ret.raised = None
              /\ ret.value = ChatUnavailable
              /\ Len(ret.value) > 0
              /\ ErrorPrefixed(ret.value)

\* C5 witness: chat on an instance that fell back to standalone after a failed spawn
C5_Witness ==
    /\ mode = "PARENT_STANDALONE"
    /\ options[1].spawn_cli
    /\ ret.op = "chat"

\* C6: chat never raises, and when its request failed (no connection, drop
\* or timeout while reading) it returns an error-prefixed string, not the
\* text accumulated before the failure.
C6_FailureIsErrorString ==
    /\ ret.op = "chat" => ret.raised = None
    /\ (pc = "ready" /\ ret.op = "chat" /\ conn = "failed") =>
          /\ ErrorPrefixed(ret.value)
          /\ ret.value # ChatAnswer(full_response)

\* C6 witness: the timeout expired after the fragment "pong " had arrived
C6_Witness ==
    /\ pc = "ready"
    /\ ret.op = "chat"
    /\ conn = "failed"
    /\ full_response = "pong "
    /\ ret.value = "Error: timed out"

\* C7: when malformed frames are interleaved with well-formed text frames
\* and the connection does not fail, chat returns the concatenation of the
\* contents of the well-formed text frames (stated for a non-empty one).
C7_MalformedIgnored ==
    (/\ pc = "ready" /\ ret.op = "chat" /\ conn \in {"done", "closed"}
     /\ \E i \in DOMAIN stream : Malformed(stream[i])
     /\ TextConcat(stream) # "")
        => ret.value = TextConcat(stream)

\* C8: set_state with a monitor port never raises, the value is in the local
\* store before the sync request is issued, and it is still there when
\* set_state has returned, whatever the outcome of the sync.
C8_SyncNeverFails ==
    /\ ret.op = "set_state" => ret.raised = None
    /\ pc = "sync_wait" =>
          DictGet(custom_state, call[1].args[1]) = call[1].args[2]
    /\ (pc = "ready" /\ ret.op = "set_state") =>
          DictGet(custom_state, ret.args[1]) = ret.args[2]

\* C8 witness: set_state returned after its sync request failed
C8_Witness ==
    /\ pc = "ready"
    /\ ret.op = "set_state"
    /\ TruthyInt(cli_port)
    /\ conn = "failed"

\* C9: the sync is detached: while a sync request is in flight the caller
\* is not held inside set_state.
C9_Detached == conn = "pending" => pc # "sync_wait"

C11_ChatRouting ==
    (pc = "ready" /\ ret.op = "chat") =>
        ((conn = "none" /\ ret.value = ChatUnavailable) <=> mode = "PARENT_STANDALONE")

\* C12: once make_reflexive has returned, the mode is CHILD whenever the
\* environment marks CLI child mode and holds a monitor port, whatever the
\* options say, and then no subprocess is launched even with spawn_cli set;
\* otherwise a spawn is attempted exactly when the options ask for it, and the
\* mode is PARENT_SPAWNED if it succeeded and PARENT_STANDALONE in every other
\* case.
C12_ModeResolution ==
    (ret.op = "make_reflexive" /\ ret.raised = None) =>
        LET opts == ret.args[1]
            child == /\ env.REFLEXIVE_CLI_MODE = Some("true")
                     /\ env.REFLEXIVE_CLI_PORT # None
        IN  /\ child => (mode = "CHILD" /\ spawn = None /\ proc = "none")
            /\ (~child /\ opts.spawn_cli) =>
                   /\ spawn # None
                   /\ mode = IF spawn[1].outcome = "running"
                             THEN "PARENT_SPAWNED" ELSE "PARENT_STANDALONE"
            /\ (~child /\ ~opts.spawn_cli) =>
                   (mode = "PARENT_STANDALONE" /\ spawn = None)

\* C12 witness: the child branch was taken although the options asked to spawn
C12_Witness ==
    /\ ret.op = "make_reflexive"
    /\ ret.args[1].spawn_cli
    /\ mode = "CHILD"
    /\ spawn = None

\* C14: _cleanup never raises, and only the first call on a handle sends a
\* signal: every later call finds the process gone and sends neither SIGTERM
\* nor SIGKILL, whether the first call ended by a graceful exit or by a kill.
C14_CleanupIdempotent ==
    /\ ret.op \in {"_cleanup", "atexit"} => ret.raised = None
    /\ \A i \in DOMAIN signals : signals[i].call = 1

\* the termination hook is running
ExitHookRunning == pc = "cleanup_wait" /\ call # None /\ call[1].op = "atexit"

\* C15: the termination hook is registered at construction exactly when the
\* instance owns a spawned monitor; SIGKILL is sent only after the SIGTERM of
\* the same call and only while the process has not exited; the hook returns
\* without raising, and after it the monitor is eventually no longer running.
C15_TerminationHook ==
    /\ [](pc \notin {"start", "failed"} => (atexit_hooks = 1 <=> cli_process # None))
    /\ [](\A i \in DOMAIN signals : signals[i].sig = "SIGKILL" =>
              (i > 1 /\ signals[i - 1] = Signal(signals[i].call, "SIGTERM")))
    /\ [][(signals' # signals /\ signals'[Len(signals')].sig = "SIGKILL")
              => (pc = "cleanup_wait" /\ proc # "exited")]_vars
    /\ [](ret.op = "atexit" => ret.raised = None)
    /\ (ExitHookRunning ~> pc = "terminated")
    /\ ((pc = "terminated" /\ cli_process # None) ~> proc = "exited")

\* C15 witness: the hook asked, waited, killed and returned, and the monitor is gone
C15_Witness ==
    /\ pc = "terminated"
    /\ ret.op = "atexit"
    /\ signals = <<Signal(1, "SIGTERM"), Signal(1, "SIGKILL")>>
    /\ proc = "exited"

\* a port as it would be written on a command line
PortArg(n) == CASE n = 3099 -> "3099" [] n = 8080 -> "8080"

\* C20: the command line of the monitor is the executable, the write, debug
\* and shell flags in that order, each present exactly when its option is
\* enabled, then the entry point and the configured port.
C20_CommandLine ==
    spawn # None =>
        LET opts == options[1]
        IN  spawn[1].cmd =
                <<"npx", "reflexive">>
                \o (IF opts.write = None \/ opts.write = Some(TRUE) THEN <<"--write">> ELSE <<>>)
                \o (IF opts.debug = Some(TRUE) THEN <<"--debug">> ELSE <<>>)
                \o (IF opts.shell = Some(TRUE) THEN <<"--shell">> ELSE <<>>)
                \o <<IF opts.entry = None THEN Argv0 ELSE opts.entry[1]>>
                \o <<PortArg(IF opts.port = None THEN DefaultPort ELSE opts.port[1])>>

\* C13: after a failed spawn (executable missing, another launch error, or
\* the monitor gone within the grace period) construction has succeeded and
\* the instance is a PARENT_STANDALONE one: no handle, no port, no
\* termination hook, no request ever made and no signal ever sent, chat
\* returning the sentinel and set_state returning normally.
C13_FailedSpawnIsStandalone ==
    (spawn # None /\ spawn[1].outcome # "running") =>
        /\ pc # "failed"
        /\ mode = "PARENT_STANDALONE"
        /\ cli_process = None
        /\ cli_port = None
        /\ atexit_hooks = 0
        /\ sent = {}
        /\ conn = "none"
        /\ signals = <<>>
        /\ pc \in {"ready", "terminated"}
        /\ ret.raised = None
        /\ ret.op = "chat" => ret.value = ChatUnavailable

\* C13 witness: after a monitor that exited within the grace period, the
\* application set a value and then chatted
C13_Witness ==
    /\ spawn # None
    /\ spawn[1].outcome = "exited_early"
    /\ proc = "exited"
    /\ writes # <<>>
    /\ ret.op = "chat"
    /\ ret.value = ChatUnavailable

\* C19: once the instance is built, no step of the application, of the
\* monitor or of the environment changes its mode, port or handle.
C19_ConnectionFixed ==
    [][pc # "start" => UNCHANGED <<mode, cli_port, cli_process>>]_vars

\* C19 witness: a spawned parent made requests and cleaned up, its monitor
\* exited, and the environment now marks CLI child mode
C19_Witness ==
    /\ mode = "PARENT_SPAWNED"
    /\ cli_port = Some(DefaultPort)
    /\ cli_process # None
    /\ CliChild(env)
    /\ proc = "exited"
    /\ cleanups > 0
    /\ sent # {}

\* what the regular expressions of Queries match among Messages
Matching ==
    {<<"start", "started">>, <<"ed", "started">>, <<"ed", "failed">>, <<"^fail", "failed">>}

\* the answer in hand is the one search_logs owes for its query on the store
SearchAnswered ==
    LET query == ret.args[1]
    IN  IF query = "("
        THEN ret.raised = Some("re.error") /\ ret.value = None
        ELSE /\ ret.raised = None
             /\ \A i \in DOMAIN ret.value : <<query, ret.value[i].message>> \in Matching
             /\ \A i \in DOMAIN logs :
                    <<query, logs[i].message>> \in Matching =>
                        \E j \in DOMAIN ret.value : ret.value[j] = logs[i]
             /\ \A i, j \in DOMAIN ret.value :
                    i < j => ret.value[i].timestamp < ret.value[j].timestamp
             /\ \A i \in DOMAIN ret.value : \E j \in DOMAIN logs : logs[j] = ret.value[i]

\* C16: search_logs leaves the store as it was and returns exactly the
\* retained entries whose message matches the pattern, in append order; for a
\* pattern that does not compile it raises to the caller, returns nothing, and
\* leaves the store as it was.
C16_SearchLogs ==
    [][ret'.op = "search_logs" =>
          (SearchAnswered' /\ UNCHANGED <<maxlen, logs, appended, custom_state>>)]_vars

\* C16 witness: a search that returned some but not all of the retained entries
C16_Witness ==
    /\ ret.op = "search_logs"
    /\ ret.raised = None
    /\ Len(ret.value) > 0
    /\ Len(ret.value) < Len(logs)
    /\ Len(appended) > Len(logs)

\* C17: under every interleaving of a logging thread and a searching thread
\* no append is lost other than by eviction, the store never holds more than
\* its capacity, the last value set for a key is the one stored, and a search
\* never fails because the other thread appended while it was reading: it
\* returns entries that were retained together.
C17_ThreadSafe ==
    /\ logs = LastK(appended, maxlen)
    /\ Len(logs) <= maxlen
    /\ \A k \in Keys : DictGet(custom_state, k) = LastWritten(writes, k)
    /\ reader.pc = "done" => reader.raised # Some("RuntimeError")

\* the texts of Texts that are empty or hold white space only
BlankTexts == {"\n", "   ", ""}

\* a write was forwarded unchanged, once, and logged once unless blank
WriteCaptured ==
    LET sink == ret'.args[1]
        text == ret'.args[2]
    IN  /\ forwarded' = Append(forwarded, [sink |-> sink, text |-> text])
        /\ IF text \in BlankTexts
           THEN appended' = appended
           ELSE /\ Len(appended') = Len(appended) + 1
                /\ appended'[Len(appended')].type = sink
                /\ SubSeq(appended', 1, Len(appended)) = appended

\* C18 as stated: once an instance is built, every write to stdout or stderr
\* reaches the original stream unchanged and exactly once, and appends
\* exactly one entry of that kind unless the text is blank.
C18_EveryWriteCaptured ==
    [][ret'.op = "write" => WriteCaptured]_vars

\* C18 amended: once an instance is built in a parent mode (PARENT_STANDALONE
\* or PARENT_SPAWNED), every write to stdout or stderr reaches the original
\* stream unchanged and exactly once, and appends exactly one entry of that
\* kind unless the text is blank; in CHILD mode a write reaches the original
\* stream unchanged and exactly once and appends nothing.
C18_ParentWritesCaptured ==
    [][ret'.op = "write" =>
          IF mode \in {"PARENT_STANDALONE", "PARENT_SPAWNED"}
          THEN WriteCaptured
          ELSE /\ forwarded' = Append(forwarded, [sink |-> ret'.args[1], text |-> ret'.args[2]])
               /\ appended' = appended]_vars

\* C18 witness: print("hello") in a plain parent: two writes, one entry
C18_Witness ==
    /\ mode = "PARENT_STANDALONE"
    /\ forwarded = <<[sink |-> "stdout", text |-> "hello"],
                     [sink |-> "stdout", text |-> "\n"]>>
    /\ Len(appended) = 1
    /\ appended[1].type = "stdout"
    /\ appended[1].message = "hello"

\* C21: however often make_reflexive is called in a process, at most one
\* interception layer is installed, exactly one once an instance was built on
\* the intercepting path, and no write is logged again by the layer of an
\* earlier instance.
C21_InstalledOnce ==
    /\ intercepts <= 1
    /\ mode \in ParentModes => intercepts = 1
    /\ \A i \in DOMAIN earlier : earlier[i].appended = earlier[i].before

\* C22: the store of the instance make_reflexive returned has the capacity
\* given by the max_logs option, 500 when the option is absent, in every mode.
C22_Capacity ==
    (ret.op = "make_reflexive" /\ ret.raised = None) =>
        maxlen = IF ret.args[1].max_logs = None THEN 500 ELSE ret.args[1].max_logs[1]

\* C23: get_logs with a count K and a kind returns the last K of the retained
\* entries of that kind, oldest first, and nothing of another kind.
C23_FilterThenCount ==
    (ret.op = "get_logs" /\ ret.args[1] # None /\ ret.args[2] # None) =>
        LET K == ret.args[1][1]
            ofKind == SelectSeq(logs, LAMBDA e : e.type = ret.args[2][1])
        IN  /\ ret.raised = None
            /\ ret.value = SubSeq(ofKind, Len(ofKind) - Min(K, Len(ofKind)) + 1, Len(ofKind))
            /\ \A i \in DOMAIN ret.value : ret.value[i].type = ret.args[2][1]

\* C24: chat never raises and never returns the empty string; when the
\* response was read to its end and the text fragments add up to nothing
\* (no text frame, or empty contents only) it returns "No response", which
\* does not start with the error prefix.
C24_NeverEmpty ==
    (pc = "ready" /\ ret.op = "chat") =>
        /\ ret.raised = None
        /\ Len(ret.value) > 0
        /\ (ChatCompleted /\ TextConcat(stream) = "") =>
              (ret.value = "No response" /\ ~ErrorPrefixed(ret.value))

\* C24 witness: a response of one status frame and one text frame with empty
\* content was read to its end
C24_Witness ==
    /\ ChatCompleted
    /\ stream = <<StatusFrame, TextFrame("")>>
    /\ full_response = ""
    /\ ret.value = "No response"

====
